---- MODULE Spec2Model ----
(***************************************************************************)
(* Ring World: the ring carousel's position/selection engine.              *)
(*                                                                         *)
(*   - useRingInput  (input dispatcher: key events, long-press and         *)
(*                    double-press timers)                                 *)
(*   - useRingNav    (navigation controller: index, move, handler wiring)  *)
(*   - useStepAnimation (circular step animator)                           *)
(*   - Ring.visibleSlots (visible window builder)                          *)
(*                                                                         *)
(* Time is Date.now() in milliseconds.  Timers are Node timers: a timer    *)
(* whose deadline has come runs before the clock moves on, but a key event *)
(* that arrives in the same millisecond may be handled before it.          *)
(***************************************************************************)
EXTENDS Integers, Sequences, FiniteSets, TLC

\* ------------------------------------------------------------- bounds
\* activate key events delivered to the dispatcher (press scenarios)
MaxKeys == 3
\* key events of any kind delivered to the controller (navigation scenarios)
MaxNavKeys == 2
\* the clock stops advancing here (ms)
MaxTime == 1000
\* the clock advances by at most this much in one step (ms), and never past
\* the deadline of an armed timer
TimeStep == 50
\* largest item count handed to useRingNav
MaxItems == 3
\* largest count / total / items.length where move, the animator and the window
\* builder are exercised on their own
MaxCount == 5
\* move(delta) is applied for delta in -MaxDelta..MaxDelta
MaxDelta == 7
\* target changes handed to one animator
MaxRetargets == 2
\* largest total handed to an animator that is run frame by frame
MaxTotal == 4
\* the clock stops advancing here while an animation is followed (ms)
MaxAnimTime == 700
\* renders with unchanged props that are followed after an animation was started
MaxUpdates == 2
\* a controlled selectedIndex lies at most this far outside [0, N)
MaxOutOfRange == 2
\* keydown events delivered to the display emulator
MaxEmuKeys == 6
\* largest visibleItems
MaxWindow == 5
\* positions are fixed-point numbers: PosScale units are one item
PosScale == 2000
\* eased progress is a fixed-point number: EaseScale units are 1.0
EaseScale == 100

\* ---------------------------------------------------------- constants
\* TIMING.DOUBLE_PRESS_WINDOW
DOUBLE_PRESS_WINDOW == 250
\* TIMING.LONG_PRESS_THRESHOLD
LONG_PRESS_THRESHOLD == 400

\* the duration Ring passes to useStepAnimation (ms)
RING_DURATION == 150

\* the duration ProgressBar and Gauge pass to useAnimation (ms)
VALUE_DURATION == 200

\* null of pressStartRef
NoTime == -1
\* null of a timer handle (timer ids start at 1)
NoTimer == 0
\* lastAction: null
NoAction == "none"

\* Date.now() when the component mounts: lastPressRef starts at 0 (the epoch),
\* and the wall clock is far more than one window away from it.
MountTime == DOUBLE_PRESS_WINDOW

VARIABLES
    \* ---- environment
    now,                  \* Date.now()
    mounted,              \* the component is mounted (useInput is subscribed)
    timers,               \* armed Node timers: records [id, kind, due, cap] (cap: the render
                          \* whose closures the callback runs)
    nextTimer,            \* next timer id handed out by setTimeout
    exited,               \* useApp().exit() was called
    keysLeft,             \* key events the environment may still deliver
    \* ---- useRingInput
    lastAction,           \* state.lastAction
    isLongPressing,       \* state.isLongPressing
    pressCount,           \* state.pressCount
    pressStartRef,
    lastPressRef,
    longPressTimerRef,
    doublePressTimerRef,
    pendingPressRef,
    \* ---- useRingNav
    itemCount,            \* items.length of the current render
    wrap,                 \* options.wrap
    hasOnBack,            \* options.onBack is given
    index,                \* useState(0)
    \* ---- observation
    history,              \* key events and dispatched actions, in order
    selected,             \* onSelect invocations: [idx, count] (count: items.length
                          \* of the render whose closure ran)
    backCalls,            \* number of onBack invocations
    moveFrom,             \* the index the last direct move(delta) started from
    moveDelta,            \* its delta
    \* ---- useStepAnimation (positions in fixed point)
    target,               \* the target index (a prop)
    total,                \* items.length (a prop)
    current,              \* useState(target): the position returned
    startRef,
    startTimeRef,
    frameScheduled,       \* a requestAnimationFrame callback is pending (frameRef)
    delta,                \* the effect's shortest-path delta
    endValue,             \* the effect's end value
    newValue,             \* the value animate last handed to setCurrent
    retargets,            \* target changes made so far
    retargetAt,           \* Date.now() at the last target change
    hook,                 \* which animator: "step" (useStepAnimation) or "value" (useAnimation)
    updates,              \* renders with unchanged props since the last target change
    \* ---- Ring.visibleSlots
    visibleItems,         \* the window size (a prop)
    visibleSlots,         \* the slots built: records [index, depth, offset]
    \* ---- RingWorldDemo (the web display emulator)
    view,                 \* useState<View>("main")
    selectedIndex,        \* useState(0)
    emuKeys               \* keydown events the emulator has handled

inputVars == <<now, mounted, timers, nextTimer, exited, keysLeft, lastAction, isLongPressing,
               pressCount, pressStartRef, lastPressRef, longPressTimerRef,
               doublePressTimerRef, pendingPressRef>>
navVars == <<itemCount, wrap, hasOnBack, index>>
obsVars == <<history, selected, backCalls>>
moveObs == <<moveFrom, moveDelta>>
animVars == <<target, total, current, startRef, startTimeRef, frameScheduled, delta,
              endValue, newValue, retargets, retargetAt, hook, updates>>
winVars == <<visibleItems, visibleSlots>>
emuVars == <<view, selectedIndex, emuKeys>>
vars == <<inputVars, navVars, obsVars, moveObs, animVars, winVars, emuVars>>

\* ------------------------------------------------------------ helpers
Min(a, b) == IF a <= b THEN a ELSE b
Max(a, b) == IF a >= b THEN a ELSE b
Abs(a) == IF a >= 0 THEN a ELSE -a

\* JavaScript's % : the remainder takes the sign of the dividend
JsRem(a, b) == IF a >= 0 THEN a % b ELSE -((-a) % b)

KeyEvent(k) == [kind |-> "key", name |-> k, at |-> now]
Dispatched(a) == [kind |-> "dispatch", name |-> a, at |-> now]

\* ------------------------------------------------------------ useRingNav
\* the updater with JavaScript's % used once (negative results kept)
moveSingleRem(cur, d, count, w) ==
    IF w THEN JsRem(cur + d, count)
         ELSE Max(0, Min(count - 1, cur + d))

\* the updater wrapping by at most one turn
moveOneTurn(cur, d, count, w) ==
    LET next == cur + d
    IN  IF w THEN (IF next >= count THEN next - count
                   ELSE IF next < 0 THEN next + count ELSE next)
             ELSE Max(0, Min(count - 1, next))

\* move(delta): the setIndex updater applied to the current index
move(cur, d, count, w) ==
    LET next == cur + d
    IN  IF w THEN JsRem(JsRem(next, count) + count, count)
             ELSE Max(0, Min(count - 1, next))

\* the handlers with up and down moving the index as well
IndexAfterUpDown(action) ==
    CASE action \in {"left", "up"}    -> move(index, -1, itemCount, wrap)
      [] action \in {"right", "down"} -> move(index, 1, itemCount, wrap)
      [] OTHER                        -> index

\* the handlers with left and right exchanged
IndexAfterSwapped(action) ==
    CASE action = "left"  -> JsRem(JsRem(index + 1, itemCount) + itemCount, itemCount)
      [] action = "right" -> JsRem(JsRem(index - 1, itemCount) + itemCount, itemCount)
      [] OTHER            -> index

\* handlers passed to useRingInput by useRingNav: the effect of dispatch(action)
\* on the controller.  cap is the render whose closures run: [idx, count].
IndexAfter(action) ==
    CASE action = "left"  -> move(index, -1, itemCount, wrap)
      [] action = "right" -> move(index, 1, itemCount, wrap)
      [] OTHER            -> index

SelectedAfter(action, cap) ==
    IF action = "press" THEN Append(selected, cap) ELSE selected

BackCallsAfter(action) ==
    IF action = "escape" /\ hasOnBack THEN backCalls + 1 ELSE backCalls

\* dispatch(action): setState lastAction, then the handler of the action
dispatch(action, cap) ==
    /\ lastAction' = action
    /\ index' = IndexAfter(action)
    /\ selected' = SelectedAfter(action, cap)
    /\ backCalls' = BackCallsAfter(action)

\* the render that is current: what a closure created now captures
Render == [idx |-> index, count |-> itemCount]

\* ---------------------------------------------------------- useRingInput
\* clearTimeout that cancels nothing
clearTimeoutKeeps(ts, id) == ts

\* clearTimeout(id)
clearTimeout(ts, id) == {t \in ts : t.id # id}

\* clearTimers() that forgets the double-press timer
clearTimersLongOnly(ts, longRef, dblRef) == clearTimeout(ts, longRef)

\* clearTimers(): the timers of both handles cancelled (the handles are nulled by
\* the caller's assignments)
clearTimers(ts, longRef, dblRef) == clearTimeout(clearTimeout(ts, longRef), dblRef)

\* a directional key held back while an activate press is pending
NavKeyDebounced(k) ==
    /\ mounted
    /\ keysLeft > 0
    /\ keysLeft' = keysLeft - 1
    /\ k \in {"up", "down", "left", "right", "tab"}
    /\ IF pendingPressRef
       THEN /\ history' = Append(history, KeyEvent(k))
            /\ UNCHANGED <<lastAction, index, selected, backCalls>>
       ELSE /\ lastAction' = k
            /\ history' = history \o <<KeyEvent(k), Dispatched(k)>>
            /\ UNCHANGED <<index, selected, backCalls>>
    /\ UNCHANGED <<now, mounted, timers, nextTimer, exited, isLongPressing, pressCount,
                   pressStartRef, lastPressRef, longPressTimerRef, doublePressTimerRef,
                   pendingPressRef, itemCount, wrap, hasOnBack>>
    /\ UNCHANGED <<moveObs, animVars, winVars, emuVars>>

\* a directional key that also abandons the pending activate press
NavKeyResetsPress(k) ==
    /\ mounted
    /\ keysLeft > 0
    /\ keysLeft' = keysLeft - 1
    /\ k \in {"up", "down", "left", "right", "tab"}
    /\ dispatch(k, Render)
    /\ history' = history \o <<KeyEvent(k), Dispatched(k)>>
    /\ pendingPressRef' = FALSE
    /\ UNCHANGED <<now, mounted, timers, nextTimer, exited, isLongPressing, pressCount,
                   pressStartRef, lastPressRef, longPressTimerRef, doublePressTimerRef,
                   itemCount, wrap, hasOnBack>>
    /\ UNCHANGED <<moveObs, animVars, winVars, emuVars>>

\* up/down/left/right/tab: dispatched at once
NavKey(k) ==
    /\ mounted
    /\ keysLeft > 0
    /\ keysLeft' = keysLeft - 1
    /\ k \in {"up", "down", "left", "right", "tab"}
    /\ dispatch(k, Render)
    /\ history' = history \o <<KeyEvent(k), Dispatched(k)>>
    /\ UNCHANGED <<now, mounted, timers, nextTimer, exited, isLongPressing, pressCount,
                   pressStartRef, lastPressRef, longPressTimerRef, doublePressTimerRef,
                   pendingPressRef, itemCount, wrap, hasOnBack>>
    /\ UNCHANGED <<moveObs, animVars, winVars, emuVars>>

\* escape / q calling exit() whether or not an escape handler is given
EscapeKeyAlwaysExit ==
    /\ mounted
    /\ keysLeft > 0
    /\ keysLeft' = keysLeft - 1
    /\ exited' = TRUE
    /\ history' = Append(history, KeyEvent("escape"))
    /\ UNCHANGED <<lastAction, index, selected, backCalls>>
    /\ UNCHANGED <<now, mounted, timers, nextTimer, isLongPressing, pressCount,
                   pressStartRef, lastPressRef, longPressTimerRef, doublePressTimerRef,
                   pendingPressRef, itemCount, wrap, hasOnBack>>
    /\ UNCHANGED <<moveObs, animVars, winVars, emuVars>>

\* escape / q
EscapeKey ==
    /\ mounted
    /\ keysLeft > 0
    /\ keysLeft' = keysLeft - 1
    /\ IF hasOnBack
       THEN /\ dispatch("escape", Render)
            /\ history' = history \o <<KeyEvent("escape"), Dispatched("escape")>>
            /\ UNCHANGED exited
       ELSE /\ exited' = TRUE
            /\ history' = Append(history, KeyEvent("escape"))
            /\ UNCHANGED <<lastAction, index, selected, backCalls>>
    /\ UNCHANGED <<now, mounted, timers, nextTimer, isLongPressing, pressCount,
                   pressStartRef, lastPressRef, longPressTimerRef, doublePressTimerRef,
                   pendingPressRef, itemCount, wrap, hasOnBack>>
    /\ UNCHANGED <<moveObs, animVars, winVars, emuVars>>

\* delay of the long-press timer
LongPressDelay == LONG_PRESS_THRESHOLD

\* the double-press timer armed with the long-press threshold
DoublePressDelayLong == LONG_PRESS_THRESHOLD

\* delay of the double-press timer
DoublePressDelay == DOUBLE_PRESS_WINDOW

\* the window test with the comparison turned around
IsDoublePressInverted == now - lastPressRef > DOUBLE_PRESS_WINDOW /\ pendingPressRef

\* the window test without the pending flag
IsDoublePressNoPending == now - lastPressRef < DOUBLE_PRESS_WINDOW

\* the double-press test of the activate handler

IsDoublePress == now - lastPressRef < DOUBLE_PRESS_WINDOW /\ pendingPressRef

\* enter / space
ActivateKey ==
    /\ mounted
    /\ keysLeft > 0
    /\ keysLeft' = keysLeft - 1
    /\ LET longId == nextTimer
           longT == [id |-> longId, kind |-> "long", due |-> now + LongPressDelay,
                     cap |-> Render]
           \* clear any existing long press timer, set up the new one
           ts1 == clearTimeout(timers, longPressTimerRef) \cup {longT}
       IN  /\ pressStartRef' = now
           /\ IF IsDoublePress
              THEN \* clearTimers() sees the new long-press handle
                   /\ timers' = clearTimers(ts1, longId, doublePressTimerRef)
                   /\ longPressTimerRef' = NoTimer
                   /\ doublePressTimerRef' = NoTimer
                   /\ pendingPressRef' = FALSE
                   /\ dispatch("doublePress", Render)
                   /\ pressCount' = pressCount + 1
                   /\ nextTimer' = nextTimer + 1
                   /\ history' = history \o <<KeyEvent("activate"), Dispatched("doublePress")>>
              ELSE LET dblId == nextTimer + 1
                       dblT == [id |-> dblId, kind |-> "double",
                                due |-> now + DoublePressDelay, cap |-> Render]
                   IN  /\ pendingPressRef' = TRUE
                       /\ timers' = clearTimeout(ts1, doublePressTimerRef) \cup {dblT}
                       /\ longPressTimerRef' = longId
                       /\ doublePressTimerRef' = dblId
                       /\ nextTimer' = nextTimer + 2
                       /\ history' = Append(history, KeyEvent("activate"))
                       /\ UNCHANGED <<lastAction, index, selected, backCalls, pressCount>>
           /\ lastPressRef' = now
    /\ UNCHANGED <<now, mounted, exited, isLongPressing, itemCount, wrap, hasOnBack>>
    /\ UNCHANGED <<moveObs, animVars, winVars, emuVars>>

\* a timer whose deadline has come; Node runs timers in deadline order
Due(t) == t \in timers /\ t.due <= now /\ \A u \in timers : u.due >= t.due

\* the long-press timer's callback
LongPressCallback(t) ==
    /\ timers' = timers \ {t}
    /\ isLongPressing' = TRUE
    /\ dispatch("longPress", t.cap)
    /\ history' = Append(history, Dispatched("longPress"))
    /\ pressStartRef' = NoTime
    /\ pendingPressRef' = FALSE
    /\ UNCHANGED pressCount

\* the double-press timer's callback leaving the long-press timer armed
DoublePressCallbackKeepsLong(t) ==
    /\ IF pendingPressRef /\ pressStartRef # NoTime
       THEN /\ timers' = timers \ {t}
            /\ dispatch("press", t.cap)
            /\ history' = Append(history, Dispatched("press"))
            /\ pressCount' = pressCount + 1
       ELSE /\ timers' = timers \ {t}
            /\ UNCHANGED <<lastAction, index, selected, backCalls, history, pressCount>>
    /\ pendingPressRef' = FALSE
    /\ UNCHANGED <<isLongPressing, pressStartRef>>

\* the double-press timer's callback
DoublePressCallback(t) ==
    /\ IF pendingPressRef /\ pressStartRef # NoTime
       THEN /\ timers' = clearTimeout(timers \ {t}, longPressTimerRef)
            /\ dispatch("press", t.cap)
            /\ history' = Append(history, Dispatched("press"))
            /\ pressCount' = pressCount + 1
       ELSE /\ timers' = timers \ {t}
            /\ UNCHANGED <<lastAction, index, selected, backCalls, history, pressCount>>
    /\ pendingPressRef' = FALSE
    /\ UNCHANGED <<isLongPressing, pressStartRef>>

\* an armed timer expires and Node runs its callback
TimerFires ==
    \E t \in timers :
        /\ Due(t)
        /\ IF t.kind = "long" THEN LongPressCallback(t) ELSE DoublePressCallback(t)
        /\ UNCHANGED <<now, mounted, nextTimer, exited, keysLeft, lastPressRef,
                       longPressTimerRef, doublePressTimerRef, itemCount, wrap, hasOnBack>>
        /\ UNCHANGED <<moveObs, animVars, winVars, emuVars>>

\* cleanup on unmount: clearTimers(); ink's useInput unsubscribes
Unmount ==
    /\ mounted
    /\ mounted' = FALSE
    /\ timers' = clearTimers(timers, longPressTimerRef, doublePressTimerRef)
    /\ longPressTimerRef' = NoTimer
    /\ doublePressTimerRef' = NoTimer
    /\ history' = Append(history, [kind |-> "unmount", name |-> "unmount", at |-> now])
    /\ UNCHANGED <<now, nextTimer, exited, keysLeft, lastAction, isLongPressing, pressCount,
                   pressStartRef, lastPressRef, pendingPressRef>>
    /\ UNCHANGED <<navVars, selected, backCalls, moveObs, animVars, winVars, emuVars>>

\* the caller renders with another item list (items.length changes)
Rerender ==
    /\ mounted
    /\ \E n \in 1..MaxItems : n # itemCount /\ itemCount' = n
    /\ UNCHANGED <<inputVars, wrap, hasOnBack, index, obsVars, moveObs, animVars, winVars, emuVars>>

\* the wall clock advances; an armed timer's deadline is not passed over
Tick ==
    /\ now < MaxTime
    /\ \A t \in timers : t.due > now
    /\ LET dues == {t.due : t \in timers}
           step == now + TimeStep
           next == IF dues = {} THEN step
                   ELSE Min(step, CHOOSE d \in dues : \A e \in dues : d <= e)
       IN  now' = Min(next, MaxTime)
    /\ UNCHANGED <<mounted, timers, nextTimer, exited, keysLeft, lastAction, isLongPressing,
                   pressCount, pressStartRef, lastPressRef, longPressTimerRef,
                   doublePressTimerRef, pendingPressRef>>
    /\ UNCHANGED <<navVars, obsVars, moveObs, animVars, winVars, emuVars>>

\* the clock advances while a timer is armed (the navigation scenarios: between
\* gestures no code reads the clock, so idle time is not enumerated)
TickArmed == timers # {} /\ Tick

\* ------------------------------------------------------- useStepAnimation
\* 0.001, the settle threshold, in position units
SettleEps == PosScale \div 1000

\* ease.smoothStep: t * t * (3 - 2 * t), t and the result in EaseScale units
smoothStep(t) == (t * t * (3 * EaseScale - 2 * t)) \div (EaseScale * EaseScale)

\* Math.min(elapsed / duration, 1), in EaseScale units
Progress(elapsed, duration) == Min((elapsed * EaseScale) \div duration, EaseScale)

\* the settle check left out: the effect always starts an animation
NearNever(cur, tgt) == FALSE

\* Math.abs(current - target) < 0.001
Near(cur, tgt) == Abs(cur - tgt * PosScale) < SettleEps

\* the delta taken as it is, the long way around included
ShortestDeltaDirect(cur, tgt, tot) == tgt * PosScale - cur

\* the long way around turned back instead of shortened by a full turn
ShortestDeltaMirrored(cur, tgt, tot) ==
    LET d == tgt * PosScale - cur
    IN  IF 2 * Abs(d) > tot * PosScale THEN -d ELSE d

\* the shortest path around the ring
ShortestDelta(cur, tgt, tot) ==
    LET d == tgt * PosScale - cur
    IN  IF 2 * Abs(d) > tot * PosScale
        THEN (IF d > 0 THEN d - tot * PosScale ELSE d + tot * PosScale)
        ELSE d

\* while (newValue < 0) newValue += total
RECURSIVE NormalizeUp(_, _)
NormalizeUp(v, tot) == IF v < 0 THEN NormalizeUp(v + tot * PosScale, tot) ELSE v

\* while (newValue >= total) newValue -= total
RECURSIVE NormalizeDown(_, _)
NormalizeDown(v, tot) == IF v >= tot * PosScale THEN NormalizeDown(v - tot * PosScale, tot) ELSE v

\* the normalisation with the first loop left out
NormalizeNoUp(v, tot) == NormalizeDown(v, tot)

\* normalize to [0, total)
Normalize(v, tot) == NormalizeDown(NormalizeUp(v, tot), tot)

\* the effect body, run after a render in which target or current changed (the
\* cleanup of the previous run has cancelled its frame).  cur: the rendered current.
Effect(cur, tgt) ==
    IF Near(cur, tgt)
    THEN /\ current' = tgt * PosScale
         /\ frameScheduled' = FALSE
         /\ UNCHANGED <<startRef, startTimeRef, delta, endValue>>
    ELSE /\ current' = cur
         /\ delta' = ShortestDelta(cur, tgt, total)
         /\ startRef' = cur
         /\ endValue' = cur + ShortestDelta(cur, tgt, total)
         /\ startTimeRef' = now
         /\ frameScheduled' = TRUE

\* the caller renders with another target
SetTarget ==
    /\ hook = "step"
    /\ retargets < MaxRetargets
    /\ retargets' = retargets + 1
    /\ retargetAt' = now
    /\ updates' = 0
    /\ \E t \in 0..(total - 1) :
          /\ t # target
          /\ target' = t
          /\ Effect(current, t)
    /\ UNCHANGED <<total, newValue, hook>>
    /\ UNCHANGED <<inputVars, navVars, obsVars, moveObs, winVars, emuVars>>

\* the requestAnimationFrame callback: animate
Frame ==
    /\ hook = "step"
    /\ frameScheduled
    /\ LET elapsed == now - startTimeRef
           progress == Progress(elapsed, RING_DURATION)
           eased == smoothStep(progress)
           raw == startRef + ((endValue - startRef) * eased) \div EaseScale
           nv == Normalize(raw, total)
           \* setCurrent(newValue), and setCurrent(target) once progress reaches 1
           shown == IF progress < EaseScale THEN nv ELSE target * PosScale
       IN  /\ newValue' = nv
           /\ IF shown # current
              THEN Effect(shown, target)
              ELSE /\ frameScheduled' = (progress < EaseScale)
                   /\ UNCHANGED <<current, startRef, startTimeRef, delta, endValue>>
    /\ UNCHANGED <<target, total, retargets, retargetAt, hook, updates>>
    /\ UNCHANGED <<inputVars, navVars, obsVars, moveObs, winVars, emuVars>>

\* ----------------------------------------------------------- useAnimation
\* ease.outCubic: --t * t * t + 1, t and the result in EaseScale units
outCubic(t) ==
    LET u == t - EaseScale
    IN  (u * u * u) \div (EaseScale * EaseScale) + EaseScale

\* the effect body of useAnimation, run after a render in which target or current
\* changed.  cur: the rendered current.
ValueEffect(cur, tgt) ==
    /\ current' = cur
    /\ IF cur = tgt * PosScale
       THEN /\ frameScheduled' = FALSE
            /\ UNCHANGED <<startRef, startTimeRef>>
       ELSE /\ startRef' = cur
            /\ startTimeRef' = now
            /\ frameScheduled' = TRUE

\* the caller renders useAnimation with another target
ValueSetTarget ==
    /\ hook = "value"
    /\ retargets < MaxRetargets
    /\ retargets' = retargets + 1
    /\ retargetAt' = now
    /\ updates' = 0
    /\ \E t \in 0..(MaxTotal - 1) :
          /\ t # target
          /\ target' = t
          /\ ValueEffect(current, t)
    /\ UNCHANGED <<total, newValue, delta, endValue, hook>>
    /\ UNCHANGED <<inputVars, navVars, obsVars, moveObs, winVars, emuVars>>

\* the requestAnimationFrame callback of useAnimation: animate
ValueFrame ==
    /\ hook = "value"
    /\ frameScheduled
    /\ LET elapsed == now - startTimeRef
           progress == Progress(elapsed, VALUE_DURATION)
           eased == outCubic(progress)
           nv == startRef + ((target * PosScale - startRef) * eased) \div EaseScale
       IN  /\ newValue' = nv
           /\ IF nv # current
              THEN ValueEffect(nv, target)
              ELSE /\ frameScheduled' = (progress < EaseScale)
                   /\ UNCHANGED <<current, startRef, startTimeRef>>
    /\ UNCHANGED <<target, total, delta, endValue, retargets, retargetAt, hook, updates>>
    /\ UNCHANGED <<inputVars, navVars, obsVars, moveObs, winVars, emuVars>>

\* the duration of the hook in use
Duration == IF hook = "step" THEN RING_DURATION ELSE VALUE_DURATION

\* the caller renders again with the same props: no dependency of the effect has
\* changed, so the effect is skipped and the hook returns current
Update ==
    /\ updates < MaxUpdates
    /\ updates' = updates + 1
    /\ UNCHANGED <<target, total, current, startRef, startTimeRef, frameScheduled, delta,
                   endValue, newValue, retargets, retargetAt, hook>>
    /\ UNCHANGED <<inputVars, navVars, obsVars, moveObs, winVars, emuVars>>

\* -------------------------------------------------------- Ring.visibleSlots
\* the position truncated downwards instead of rounded
RoundFloor(pos) == pos \div PosScale

\* Math.round of a fixed-point position: halves round up
Round(pos) == (2 * pos + PosScale) \div (2 * PosScale)

\* the wrap of visibleSlots with JavaScript's % used once
WrapIndexSingleRem(raw, n) == JsRem(raw, n)

\* ((itemIndex % items.length) + items.length) % items.length
WrapIndex(raw, n) == JsRem(JsRem(raw, n) + n, n)

\* the slots of the visible window, in the order they are pushed
VisibleSlots(pos, n, v) ==
    LET halfVisible == v \div 2
    IN  [k \in 1..(2 * halfVisible + 1) |->
            LET i == k - 1 - halfVisible
            IN  [index |-> WrapIndex(Round(pos) + i, n), depth |-> Abs(i), offset |-> i]]

\* the useMemo of visibleSlots is evaluated
BuildSlots ==
    /\ visibleSlots' = VisibleSlots(current, total, visibleItems)
    /\ UNCHANGED visibleItems
    /\ UNCHANGED <<inputVars, navVars, obsVars, moveObs, animVars, emuVars>>

\* the rounded position used as the index without the remainder
SelectedItemIndexNoWrap(pos, n) == Round(pos)

\* items[Math.round(animatedPosition) % items.length]: the index selectedItem reads
SelectedItemIndex(pos, n) == JsRem(Round(pos), n)

\* the caller renders Ring with another controlled selectedIndex, which Ring hands
\* to useStepAnimation as the target
SetControlledIndex ==
    /\ hook = "step"
    /\ retargets < MaxRetargets
    /\ retargets' = retargets + 1
    /\ retargetAt' = now
    /\ updates' = 0
    /\ \E t \in (-MaxOutOfRange)..(total - 1 + MaxOutOfRange) :
          /\ t # target
          /\ target' = t
          /\ Effect(current, t)
    /\ UNCHANGED <<total, newValue, hook>>
    /\ UNCHANGED <<inputVars, navVars, obsVars, moveObs, winVars, emuVars>>

\* ------------------------------------------------------------ move(delta)
\* move is called with a delta
MoveBy ==
    \E d \in (-MaxDelta)..MaxDelta :
        /\ index' = move(index, d, itemCount, wrap)
        /\ moveFrom' = index
        /\ moveDelta' = d
        /\ UNCHANGED <<inputVars, itemCount, wrap, hasOnBack, obsVars, animVars, winVars, emuVars>>

\* ------------------------------------------------------------ RingWorldDemo
\* the ids of MAIN_MENU, in order
MAIN_MENU == <<"dashboard", "files", "settings", "network", "media", "terminal", "about">>

\* the entries of the settings view / the tracks of the media view
SETTINGS_LENGTH == 6
MEDIA_LENGTH == 5

\* the length of the list the current view indexes with selectedIndex (the
\* dashboard and about views index none)
ViewListLength ==
    CASE view = "main"     -> Len(MAIN_MENU)
      [] view = "settings" -> SETTINGS_LENGTH
      [] view = "media"    -> MEDIA_LENGTH
      [] OTHER             -> Len(MAIN_MENU)

\* handleKeyDown: ArrowLeft / h
EmuArrowLeft ==
    /\ emuKeys < MaxEmuKeys
    /\ emuKeys' = emuKeys + 1
    /\ selectedIndex' = JsRem(selectedIndex - 1 + Len(MAIN_MENU), Len(MAIN_MENU))
    /\ UNCHANGED view
    /\ UNCHANGED <<inputVars, navVars, obsVars, moveObs, animVars, winVars>>

\* handleKeyDown: ArrowRight / l
EmuArrowRight ==
    /\ emuKeys < MaxEmuKeys
    /\ emuKeys' = emuKeys + 1
    /\ selectedIndex' = JsRem(selectedIndex + 1, Len(MAIN_MENU))
    /\ UNCHANGED view
    /\ UNCHANGED <<inputVars, navVars, obsVars, moveObs, animVars, winVars>>

\* handleKeyDown: Enter opens the view of MAIN_MENU[selectedIndex], whatever view
\* is shown
EmuEnter ==
    /\ emuKeys < MaxEmuKeys
    /\ emuKeys' = emuKeys + 1
    /\ LET id == MAIN_MENU[selectedIndex + 1]
       IN  view' = IF id \in {"dashboard", "settings", "about", "media"} THEN id ELSE view
    /\ UNCHANGED selectedIndex
    /\ UNCHANGED <<inputVars, navVars, obsVars, moveObs, animVars, winVars>>

\* handleKeyDown: Escape / q
EmuEscape ==
    /\ emuKeys < MaxEmuKeys
    /\ emuKeys' = emuKeys + 1
    /\ view' = "main"
    /\ selectedIndex' = 0
    /\ UNCHANGED <<inputVars, navVars, obsVars, moveObs, animVars, winVars>>

\* ---------------------------------------------------------- specifications
\* the clock advances while an animation frame is pending (between animations
\* nothing reads the clock)
TickAnimating == frameScheduled /\ now < MaxAnimTime /\ Tick

\* the state after the first render of a mounted useRingInput / useRingNav
InitHooks ==
    /\ now = MountTime
    /\ mounted = TRUE
    /\ timers = {}
    /\ nextTimer = 1
    /\ exited = FALSE
    /\ lastAction = NoAction
    /\ isLongPressing = FALSE
    /\ pressCount = 0
    /\ pressStartRef = NoTime
    /\ lastPressRef = 0
    /\ longPressTimerRef = NoTimer
    /\ doublePressTimerRef = NoTimer
    /\ pendingPressRef = FALSE
    /\ index = 0
    /\ history = <<>>
    /\ selected = <<>>
    /\ backCalls = 0
    /\ moveFrom = 0
    /\ moveDelta = 0

\* the state after the first render of useStepAnimation(tgt, tot): the effect found
\* current = target and scheduled nothing
InitAnimator(tgt, tot) ==
    /\ target = tgt
    /\ total = tot
    /\ current = tgt * PosScale
    /\ startRef = tgt * PosScale
    /\ startTimeRef = NoTime
    /\ frameScheduled = FALSE
    /\ delta = 0
    /\ endValue = tgt * PosScale
    /\ newValue = tgt * PosScale
    /\ retargets = 0
    /\ retargetAt = NoTime
    /\ hook = "step"
    /\ updates = 0

\* the state after the first render of useAnimation(tgt): the effect found
\* current === target and scheduled nothing
InitValueAnimator(tgt) ==
    /\ target = tgt
    /\ total = 1
    /\ current = tgt * PosScale
    /\ startRef = tgt * PosScale
    /\ startTimeRef = NoTime
    /\ frameScheduled = FALSE
    /\ delta = 0
    /\ endValue = tgt * PosScale
    /\ newValue = tgt * PosScale
    /\ retargets = 0
    /\ retargetAt = NoTime
    /\ hook = "value"
    /\ updates = 0

\* parts of the program a scenario does not exercise
NoEmulator == view = "main" /\ selectedIndex = 0 /\ emuKeys = 0
NoKeys == keysLeft = 0 /\ itemCount = 1 /\ wrap = TRUE /\ hasOnBack = FALSE
NoAnimation == InitAnimator(0, 1)
NoWindow == visibleItems = 1 /\ visibleSlots = <<>>

NavKeys == \E k \in {"up", "down", "left", "right", "tab"} : NavKey(k)

\* ---- the activate button: presses, timers, disposal
InitPress ==
    /\ InitHooks /\ NoEmulator
    /\ keysLeft = MaxKeys
    /\ itemCount = MaxItems
    /\ wrap = TRUE
    /\ hasOnBack = TRUE
    /\ NoAnimation /\ NoWindow

NextPress ==
    \/ ActivateKey
    \/ TimerFires
    \/ Unmount
    \/ Tick

SpecPress == InitPress /\ [][NextPress]_vars

\* ---- the navigation controller under every key and changing item lists
InitNav ==
    /\ InitHooks /\ NoEmulator
    /\ keysLeft = MaxNavKeys
    /\ itemCount \in 1..MaxItems
    /\ wrap \in BOOLEAN
    /\ hasOnBack \in BOOLEAN
    /\ NoAnimation /\ NoWindow

NextNav ==
    \/ NavKeys
    \/ EscapeKey
    \/ ActivateKey
    \/ TimerFires
    \/ Rerender
    \/ TickArmed

SpecNav == InitNav /\ [][NextNav]_vars

\* ---- activate presses interleaved with directional keys
InitMixed ==
    /\ InitHooks /\ NoEmulator
    /\ keysLeft = MaxKeys
    /\ itemCount = MaxItems
    /\ wrap = TRUE
    /\ hasOnBack = TRUE
    /\ NoAnimation /\ NoWindow

NextMixed ==
    \/ NavKeys
    \/ ActivateKey
    \/ TimerFires
    \/ TickArmed

SpecMixed == InitMixed /\ [][NextMixed]_vars

\* ---- move(delta) on its own: every count, both wrap policies, every delta
InitMove ==
    /\ InitHooks /\ NoEmulator
    /\ keysLeft = 0
    /\ itemCount \in 1..MaxCount
    /\ wrap \in BOOLEAN
    /\ hasOnBack = FALSE
    /\ NoAnimation /\ NoWindow

NextMove == MoveBy

SpecMove == InitMove /\ [][NextMove]_vars

\* ---- the circular step animator: target changes and animation frames
InitAnim ==
    /\ InitHooks /\ NoEmulator /\ NoKeys /\ NoWindow
    /\ \E tot \in 1..MaxTotal : \E tgt \in 0..(tot - 1) : InitAnimator(tgt, tot)

NextAnim ==
    \/ SetTarget
    \/ Frame
    \/ TickAnimating

SpecAnim == InitAnim /\ [][NextAnim]_vars

\* ---- both animators, followed through settling and beyond: target changes,
\* frames, renders with unchanged props, and the clock passing while idle
TickIdle == ~frameScheduled /\ retargets > 0 /\ now < MaxAnimTime /\ Tick

InitSettle ==
    /\ InitHooks /\ NoEmulator /\ NoKeys /\ NoWindow
    /\ \/ \E tot \in 1..MaxTotal : \E tgt \in 0..(tot - 1) : InitAnimator(tgt, tot)
       \/ \E tgt \in 0..(MaxTotal - 1) : InitValueAnimator(tgt)

NextSettle ==
    \/ SetTarget
    \/ Frame
    \/ ValueSetTarget
    \/ ValueFrame
    \/ Update
    \/ TickAnimating
    \/ TickIdle

SpecSettle == InitSettle /\ [][NextSettle]_vars

\* ---- a controlled Ring: the caller's selectedIndex, in range or not, is the
\* animator's target
InitControlled ==
    /\ InitHooks /\ NoEmulator /\ NoKeys /\ NoWindow
    /\ \E tot \in 1..MaxTotal :
          \E tgt \in (-MaxOutOfRange)..(tot - 1 + MaxOutOfRange) : InitAnimator(tgt, tot)

NextControlled ==
    \/ SetControlledIndex
    \/ Frame
    \/ TickAnimating

SpecControlled == InitControlled /\ [][NextControlled]_vars

\* ---- a controlled Ring under key events: useRingNav keeps its own index while
\* the caller's selectedIndex is the target
InitControlledNav ==
    /\ InitHooks /\ NoEmulator
    /\ keysLeft = MaxNavKeys
    /\ itemCount = MaxItems
    /\ wrap = TRUE
    /\ hasOnBack = TRUE
    /\ NoWindow
    /\ \E c \in 0..(MaxItems - 1) : InitAnimator(c, MaxItems)

NextControlledNav ==
    \/ NavKeys
    \/ ActivateKey
    \/ TimerFires
    \/ SetControlledIndex
    \/ TickArmed

SpecControlledNav == InitControlledNav /\ [][NextControlledNav]_vars

\* ---- the web display emulator under keydown events
InitEmulator ==
    /\ InitHooks /\ NoKeys /\ NoAnimation /\ NoWindow
    /\ view = "main"
    /\ selectedIndex = 0
    /\ emuKeys = 0

NextEmulator ==
    \/ EmuArrowLeft
    \/ EmuArrowRight
    \/ EmuEnter
    \/ EmuEscape

SpecEmulator == InitEmulator /\ [][NextEmulator]_vars

\* ---- the visible window builder on its own: every count, window and position
Positions ==
    {k * (PosScale \div 2) + d : k \in (-2 * MaxCount)..(4 * MaxCount), d \in {-1, 0, 1}}

InitWindow ==
    /\ InitHooks /\ NoEmulator /\ NoKeys
    /\ total \in 1..MaxCount
    /\ current \in Positions
    /\ target = 0 /\ startRef = 0 /\ startTimeRef = NoTime /\ frameScheduled = FALSE
    /\ delta = 0 /\ endValue = 0 /\ newValue = 0 /\ retargets = 0
    /\ retargetAt = NoTime
    /\ hook = "step" /\ updates = 0
    /\ visibleItems \in 1..MaxWindow
    /\ visibleSlots = <<>>

NextWindow == BuildSlots

SpecWindow == InitWindow /\ [][NextWindow]_vars

\* ================================================================ claims
\* ---- reading the history
IsActivate(i) == history[i].kind = "key" /\ history[i].name = "activate"
IsUnmount(i) == history[i].kind = "unmount"
IsGesture(e) == e.kind = "dispatch" /\ e.name \in {"press", "doublePress", "longPress"}
IsDispatch(i, a) == history[i].kind = "dispatch" /\ history[i].name = a

\* the next activate key event after entry i (Len + 1: none)
NextActivate(i) ==
    LET later == {j \in (i + 1)..Len(history) : IsActivate(j)}
    IN  IF later = {} THEN Len(history) + 1
        ELSE CHOOSE j \in later : \A k \in later : j <= k

\* the press, doublePress and longPress actions dispatched in entries a..b
GesturesIn(a, b) == SelectSeq(SubSeq(history, a, b), IsGesture)
Names(seq) == [k \in DOMAIN seq |-> seq[k].name]

\* an activate press that went the single-press way: it armed both timers
ArmedBoth(i) == IsActivate(i) /\ ~(i < Len(history) /\ IsDispatch(i + 1, "doublePress"))

\* C1 (as claimed): an activate press whose long-press timer is armed and that is
\* followed by no further key event for LONG_PRESS_THRESHOLD = 400 ms has dispatched
\* exactly one longPress, and no press or doublePress.
C1_LongPressOnly ==
    \A i \in DOMAIN history :
        (/\ ArmedBoth(i)
         /\ \A j \in (i + 1)..Len(history) : history[j].kind = "dispatch"
         /\ now >= history[i].at + LONG_PRESS_THRESHOLD)
        => Names(GesturesIn(i + 1, Len(history))) = <<"longPress">>

\* C2: two activate presses less than DOUBLE_PRESS_WINDOW apart, the first still
\* pending when the second arrives, dispatch exactly one doublePress, in the handler
\* of the second press, and no press for either; both timers are then cancelled and
\* the pending flag is cleared.
C2_DoublePress ==
    \A i \in DOMAIN history :
        LET j == NextActivate(i)
        IN  (/\ IsActivate(i)
             /\ j <= Len(history)
             /\ history[j].at - history[i].at < DOUBLE_PRESS_WINDOW
             /\ GesturesIn(i + 1, j - 1) = <<>>)
            => /\ j < Len(history)
               /\ IsDispatch(j + 1, "doublePress")
               /\ history[j + 1].at = history[j].at
               /\ Names(GesturesIn(j + 1, NextActivate(j) - 1)) = <<"doublePress">>
               /\ (NextActivate(j) > Len(history)
                      => timers = {} /\ ~pendingPressRef /\ longPressTimerRef = NoTimer
                         /\ doublePressTimerRef = NoTimer)

\* C2 witness: two presses 100 ms apart were resolved as one doublePress
C2_Witness ==
    \E i \in DOMAIN history :
        /\ i + 2 <= Len(history)
        /\ IsActivate(i) /\ IsActivate(i + 1)
        /\ history[i + 1].at - history[i].at = 100
        /\ IsDispatch(i + 2, "doublePress")

\* C3: an activate press that starts a single press and is followed by no further
\* activate press for more than DOUBLE_PRESS_WINDOW (the component staying mounted)
\* dispatches exactly one press, at the instant the window elapses, and no press,
\* doublePress or longPress before it.
C3_SinglePress ==
    \A i \in DOMAIN history :
        LET t == history[i].at
            e == NextActivate(i)
        IN  (/\ ArmedBoth(i)
             /\ e <= Len(history) => history[e].at > t + DOUBLE_PRESS_WINDOW
             /\ now > t + DOUBLE_PRESS_WINDOW
             /\ \A u \in DOMAIN history : IsUnmount(u) => history[u].at > t + DOUBLE_PRESS_WINDOW)
            => LET g == GesturesIn(i + 1, e - 1)
               IN  /\ Len(g) = 1
                   /\ g[1].name = "press"
                   /\ g[1].at = t + DOUBLE_PRESS_WINDOW

\* C3 witness: a lone press, its press action dispatched when the window elapsed,
\* and the clock beyond that instant
C3_Witness ==
    /\ Len(history) = 2
    /\ IsActivate(1)
    /\ IsDispatch(2, "press")
    /\ history[2].at = history[1].at + DOUBLE_PRESS_WINDOW
    /\ now > history[2].at

\* C4: once the dispatcher is disposed no action is dispatched and no handler is
\* invoked any more: nothing follows the disposal in the history, and no timer
\* stays armed.
C4_NoCallbackAfterDisposal ==
    /\ \A u \in DOMAIN history : IsUnmount(u) => u = Len(history)
    /\ ~mounted => timers = {}

\* C4 witness: disposed while both timers of a press were armed, and the clock has
\* passed both deadlines
C4_Witness ==
    /\ ~mounted
    /\ Len(history) >= 2
    /\ IsUnmount(Len(history))
    /\ ArmedBoth(Len(history) - 1)
    /\ history[Len(history)].at < history[Len(history) - 1].at + DOUBLE_PRESS_WINDOW
    /\ now >= history[Len(history) - 1].at + LONG_PRESS_THRESHOLD

\* C5 (as claimed): a single activate press, no other key event, and disposal
\* strictly less than LONG_PRESS_THRESHOLD after the press: no action at all is
\* dispatched, before or after the disposal.
C5_ZeroActionsWhenDisposedEarly ==
    \A i, u \in DOMAIN history :
        (/\ IsActivate(i)
         /\ \A k \in DOMAIN history : history[k].kind = "key" => k = i
         /\ IsUnmount(u)
         /\ history[u].at - history[i].at < LONG_PRESS_THRESHOLD)
        => \A k \in DOMAIN history : history[k].kind # "dispatch"

\* C6: shortest path: the signed delta the animator decides to travel is at most
\* half the ring, |delta| <= total / 2, for the delta of the running effect and for
\* every current (on a quarter-item grid) and target in [0, total).
C6_ShortestPath ==
    /\ 2 * Abs(delta) <= total * PosScale
    /\ \A tgt \in 0..(total - 1) : \A k \in 0..(4 * total - 1) :
          2 * Abs(ShortestDelta(k * (PosScale \div 4), tgt, total)) <= total * PosScale

\* C6 witness: an animation is running whose delta is the shortened one, not
\* target - current
C6_Witness ==
    /\ frameScheduled
    /\ delta # target * PosScale - startRef
    /\ 2 * Abs(target * PosScale - startRef) > total * PosScale

\* C7: the displayed position is in [0, total) in every state, and so is every
\* value animate hands to setCurrent.
C7_PositionInRange ==
    /\ 0 <= current /\ current < total * PosScale
    /\ 0 <= newValue /\ newValue < total * PosScale

\* C7 witness: mid-transition on a path that wraps through 0: a fractional
\* position between total - 1 and total, the animation still running
C7_Witness ==
    /\ frameScheduled
    /\ current > (total - 1) * PosScale
    /\ newValue = current
    /\ total >= 3

\* C8 (as claimed): the controller's index is valid for the current item count in
\* every state, and every onSelect reports an index valid for the item list of the
\* render it ran in.
C8_IndexValid ==
    /\ 0 <= index /\ index < itemCount
    /\ \A k \in DOMAIN selected : 0 <= selected[k].idx /\ selected[k].idx < selected[k].count

\* C9: move(delta) yields (index + delta) mod count in [0, count) with wrap, and
\* index + delta clamped to [0, count - 1] without; move(-1) at 0 over 5 items
\* yields 4 with wrap and 0 without.
C9_MoveResult ==
    LET sum == moveFrom + moveDelta
    IN  /\ wrap => index = sum % itemCount
        /\ ~wrap => index = (IF sum < 0 THEN 0
                             ELSE IF sum > itemCount - 1 THEN itemCount - 1 ELSE sum)
        /\ (moveFrom = 0 /\ moveDelta = -1 /\ itemCount = 5)
              => index = (IF wrap THEN 4 ELSE 0)

\* C9 witness: move(-1) at index 0 over 5 items with wrap went to 4
C9_Witness ==
    wrap /\ itemCount = 5 /\ moveFrom = 0 /\ moveDelta = -1 /\ index = 4

\* C10: for an odd window size and at least as many items, the builder returns
\* exactly windowSize slots, exactly one at depth 0, every sourceIndex in
\* [0, itemCount).
C10_WindowShape ==
    (/\ visibleSlots # <<>>
     /\ visibleItems % 2 = 1
     /\ total >= visibleItems)
    => /\ Len(visibleSlots) = visibleItems
       /\ Cardinality({k \in DOMAIN visibleSlots : visibleSlots[k].depth = 0}) = 1
       /\ \A k \in DOMAIN visibleSlots :
             0 <= visibleSlots[k].index /\ visibleSlots[k].index < total

\* C10 witness: a window of 5 over 5 items built at a negative position
C10_Witness ==
    /\ Len(visibleSlots) = 5
    /\ visibleItems = 5
    /\ total = 5
    /\ current < 0

\* the integer nearest to a position, the half rounding upwards
Nearest(pos) ==
    CHOOSE r \in (-3 * MaxCount)..(3 * MaxCount) :
        2 * r * PosScale - PosScale <= 2 * pos /\ 2 * pos < 2 * r * PosScale + PosScale

\* C11: the slots are emitted in offset order -floor(windowSize/2) ..
\* +floor(windowSize/2); the slot at offset o has depth |o| and sourceIndex
\* (round(animatedPosition) + o) mod N in [0, N); with N = 5, windowSize = 5 and
\* position 0 the sourceIndex values are 3, 4, 0, 1, 2.
C11_WindowMapping ==
    visibleSlots # <<>> =>
        LET half == visibleItems \div 2
        IN  /\ Len(visibleSlots) = 2 * half + 1
            /\ \A k \in DOMAIN visibleSlots :
                  LET o == k - 1 - half
                  IN  /\ visibleSlots[k].offset = o
                      /\ visibleSlots[k].depth = Abs(o)
                      /\ visibleSlots[k].index = (Nearest(current) + o) % total
            /\ (total = 5 /\ visibleItems = 5 /\ current = 0)
                  => [k \in 1..5 |-> visibleSlots[k].index] = <<3, 4, 0, 1, 2>>

\* C11 witness: the window of 5 over 5 items at position 0 maps to 3, 4, 0, 1, 2
C11_Witness ==
    /\ total = 5 /\ visibleItems = 5 /\ current = 0
    /\ Len(visibleSlots) = 5
    /\ [k \in 1..5 |-> visibleSlots[k].index] = <<3, 4, 0, 1, 2>>

\* the animator has settled: it returns the target and no frame is pending
Settled == current = target * PosScale /\ ~frameScheduled

\* C12: once an animator has settled at its target, further renders with the same
\* target, pending frames and the passing of time return the same value and change
\* no animator state, until the target changes: a position equal to the target has
\* no frame pending, and no step that keeps the target changes the settled state.
C12_IdempotentWhenSettled ==
    [][(current = target * PosScale /\ target' = target)
          => (/\ ~frameScheduled
              /\ current' = current
              /\ UNCHANGED <<startRef, startTimeRef, frameScheduled, delta, endValue,
                             newValue, total>>)]_vars

\* C12 witness: an animation ran and settled, two further renders with the same
\* target followed and the clock moved on
C12_Witness ==
    /\ Settled
    /\ retargets > 0
    /\ updates = MaxUpdates
    /\ startTimeRef # NoTime
    /\ now >= startTimeRef + 2 * VALUE_DURATION

IsKey(i, k) == history[i].kind = "key" /\ history[i].name = k
DirectionalKeys == {"up", "down", "left", "right", "tab"}

\* C13: an up/down/left/right or Tab key event dispatches its action at once, in
\* the step that handles the key event, whether or not an activate press is
\* pending and whether or not a long-press or double-press timer is armed.
C13_DirectionalImmediate ==
    \A i \in DOMAIN history :
        (history[i].kind = "key" /\ history[i].name \in DirectionalKeys)
        => /\ i < Len(history)
           /\ IsDispatch(i + 1, history[i].name)
           /\ history[i + 1].at = history[i].at

\* C13 witness: a left key handled while a press was pending and both timers were
\* armed, its action dispatched in the same step
C13_Witness ==
    /\ Len(history) = 3
    /\ IsActivate(1)
    /\ IsKey(2, "left")
    /\ IsDispatch(3, "left")
    /\ history[2].at < history[1].at + DOUBLE_PRESS_WINDOW
    /\ pendingPressRef
    /\ Cardinality(timers) = 2

\* the escape key events handled so far
EscapeKeys == {i \in DOMAIN history : IsKey(i, "escape")}

\* C14: an Escape (or q) key event dispatches escape and invokes the handler once,
\* without triggering process exit, when an escape handler (onBack) was supplied;
\* without one it triggers process exit and dispatches no action.
C14_EscapeFallback ==
    /\ hasOnBack =>
          \A i \in EscapeKeys : /\ i < Len(history)
                                /\ IsDispatch(i + 1, "escape")
                                /\ history[i + 1].at = history[i].at
    /\ hasOnBack => (~exited /\ backCalls = Cardinality(EscapeKeys))
    /\ ~hasOnBack => /\ backCalls = 0
                     /\ exited = (EscapeKeys # {})
                     /\ \A i \in DOMAIN history : ~IsDispatch(i, "escape")

\* C14 witness: escape with onBack given called onBack once and did not exit
C14_Witness ==
    /\ hasOnBack
    /\ Cardinality(EscapeKeys) = 1
    /\ backCalls = 1
    /\ ~exited
    /\ lastAction = "escape"

\* the action dispatched by the step, if any (a step dispatches at most one)
StepDispatches(a) ==
    /\ Len(history') > Len(history)
    /\ history'[Len(history')].kind = "dispatch"
    /\ history'[Len(history')].name = a

\* C15: in the navigation controller a left action performs move(-1), a right
\* action performs move(+1), a resolved press invokes onSelect exactly once, an
\* escape action invokes onBack exactly once, and nothing else moves the index or
\* invokes the callbacks.
C15_NavigationWiring ==
    [][/\ StepDispatches("left")
          => index' = (IF wrap THEN (index - 1) % itemCount
                       ELSE Max(0, Min(itemCount - 1, index - 1)))
       /\ StepDispatches("right")
          => index' = (IF wrap THEN (index + 1) % itemCount
                       ELSE Max(0, Min(itemCount - 1, index + 1)))
       /\ ~(StepDispatches("left") \/ StepDispatches("right")) => index' = index
       /\ Len(selected') = Len(selected) + (IF StepDispatches("press") THEN 1 ELSE 0)
       /\ backCalls' = backCalls + (IF StepDispatches("escape") THEN 1 ELSE 0)]_vars

\* C15 witness: left moved the index from 0 to the last item, and a press that
\* was resolved invoked onSelect
C15_Witness ==
    /\ Len(history) = 4
    /\ IsKey(1, "left") /\ IsDispatch(2, "left")
    /\ IsActivate(3) /\ IsDispatch(4, "press")
    /\ index = itemCount - 1
    /\ itemCount = MaxItems
    /\ Len(selected) = 1

\* C16 (as claimed): a controlled selectedIndex outside [0, N) is wrapped or
\* clamped before it is used: the animation target, the displayed position and the
\* index selectedItem reads are in range in every state.
C16_ControlledIndexInRange ==
    /\ 0 <= target /\ target < total
    /\ 0 <= current /\ current < total * PosScale
    /\ 0 <= SelectedItemIndex(current, total) /\ SelectedItemIndex(current, total) < total

\* C17 (as claimed): when a press is resolved, onSelect is invoked with the
\* controller's index as it is at that moment, also when left/right moved the index
\* between the activate key event and the resolution.
C17_SelectReportsCurrentIndex ==
    [][Len(selected') > Len(selected)
          => selected'[Len(selected')].idx = index]_vars

\* the activate key events handled so far, and the actions of one name dispatched
Activates == {i \in DOMAIN history : IsActivate(i)}
CountOf(a) == Cardinality({i \in DOMAIN history : IsDispatch(i, a)})

\* every activate press but the first came less than DOUBLE_PRESS_WINDOW after the
\* one before it
RapidPresses ==
    \A i \in Activates :
        NextActivate(i) <= Len(history)
        => history[NextActivate(i)].at - history[i].at < DOUBLE_PRESS_WINDOW

\* C18: k >= 1 consecutive activate presses, each less than 250 ms after the one
\* before, followed by silence, dispatch exactly floor(k/2) doublePress and k mod 2
\* press actions; a press within 250 ms of a press that was resolved as a
\* doublePress is not another doublePress but starts a new pending single.
C18_DoubleNeedsPending ==
    /\ (/\ Activates # {}
        /\ RapidPresses
        /\ \A u \in DOMAIN history : ~IsUnmount(u)
        /\ \A i \in Activates : now > history[i].at + DOUBLE_PRESS_WINDOW)
       => /\ CountOf("doublePress") = Cardinality(Activates) \div 2
          /\ CountOf("press") = Cardinality(Activates) % 2
    /\ \A i \in Activates :
          LET j == NextActivate(i)
          IN  (/\ i < Len(history)
               /\ IsDispatch(i + 1, "doublePress")
               /\ j <= Len(history)
               /\ history[j].at - history[i].at < DOUBLE_PRESS_WINDOW)
              => /\ ~(j < Len(history) /\ IsDispatch(j + 1, "doublePress"))
                 /\ j = Len(history) => (pendingPressRef /\ Cardinality(timers) = 2)

\* C18 witness: three rapid presses and silence: one doublePress for the first
\* two, one press for the third
C18_Witness ==
    /\ Len(history) = 5
    /\ IsActivate(1) /\ IsActivate(2) /\ IsDispatch(3, "doublePress")
    /\ IsActivate(4) /\ IsDispatch(5, "press")
    /\ history[4].at - history[2].at < DOUBLE_PRESS_WINDOW
    /\ now > history[4].at + DOUBLE_PRESS_WINDOW

\* C19: no activate key event is counted in more than one dispatched action:
\* (number of press) + 2 * (number of doublePress) + (number of longPress) never
\* exceeds the number of activate key events received.
C19_OneCallbackPerGesture ==
    CountOf("press") + 2 * CountOf("doublePress") + CountOf("longPress")
        <= Cardinality(Activates)

\* C19 witness: three activate key events, all of them accounted for by one
\* doublePress and one press
C19_Witness ==
    /\ Cardinality(Activates) = 3
    /\ CountOf("doublePress") = 1
    /\ CountOf("press") = 1
    /\ timers = {}

\* the step handles a directional key event
StepHandlesDirectional ==
    /\ Len(history') = Len(history) + 2
    /\ history'[Len(history) + 1].kind = "key"
    /\ history'[Len(history) + 1].name \in DirectionalKeys

\* an activate press, then directional keys only, then a second activate press
\* less than DOUBLE_PRESS_WINDOW after the first, which was still pending
PressKeyPress(i, j) ==
    /\ IsActivate(i) /\ IsActivate(j)
    /\ i + 1 < j
    /\ \A m \in (i + 1)..(j - 1) :
          \/ history[m].kind = "key" /\ history[m].name \in DirectionalKeys
          \/ history[m].kind = "dispatch" /\ history[m].name \in DirectionalKeys
    /\ history[j].at - history[i].at < DOUBLE_PRESS_WINDOW

\* C20: an up/down/left/right/Tab key event leaves the press session state
\* (pending flag, last press time, long-press timer, double-press timer) unchanged,
\* so an activate press, a directional key and a second activate press less than
\* 250 ms after the first resolve to exactly one doublePress.
C20_PressIndependentOfDirectional ==
    /\ [][StepHandlesDirectional
             => UNCHANGED <<pendingPressRef, lastPressRef, pressStartRef, longPressTimerRef,
                            doublePressTimerRef, timers>>]_vars
    /\ [](\A i, j \in DOMAIN history :
             PressKeyPress(i, j)
             => /\ j < Len(history)
                /\ IsDispatch(j + 1, "doublePress")
                /\ Names(GesturesIn(i, NextActivate(j) - 1)) = <<"doublePress">>)

\* C20 witness: activate, left, activate within the window: one doublePress
C20_Witness ==
    /\ Len(history) = 5
    /\ IsActivate(1)
    /\ IsKey(2, "left") /\ IsDispatch(3, "left")
    /\ IsActivate(4) /\ IsDispatch(5, "doublePress")
    /\ history[4].at - history[1].at < DOUBLE_PRESS_WINDOW
    /\ timers = {}

\* C21: the shortened delta still lands on the target: the delta animated is
\* congruent to target - current modulo total, so the end value start + delta,
\* normalised into [0, total), equals the target; for the running effect and for
\* every current (on a quarter-item grid) and target in [0, total).
C21_DeltaLandsOnTarget ==
    /\ frameScheduled
          => /\ (delta - (target * PosScale - startRef)) % (total * PosScale) = 0
             /\ endValue = startRef + delta
             /\ Normalize(endValue, total) = target * PosScale
    /\ \A tgt \in 0..(total - 1) : \A k \in 0..(4 * total - 1) :
          LET cur == k * (PosScale \div 4)
              d == ShortestDelta(cur, tgt, total)
          IN  /\ (d - (tgt * PosScale - cur)) % (total * PosScale) = 0
              /\ Normalize(cur + d, total) = tgt * PosScale

\* C21 witness: an animation whose end value lies outside [0, total) and is
\* brought onto the target by the normalisation
C21_Witness ==
    /\ frameScheduled
    /\ (endValue < 0 \/ endValue >= total * PosScale)
    /\ Normalize(endValue, total) = target * PosScale

\* the step is an animation frame (animate runs) under an unchanged target
StepIsFrame ==
    /\ frameScheduled
    /\ target' = target
    /\ now' = now
    /\ updates' = updates

\* C22 (as claimed): while the target is unchanged, an animation frame that only
\* updates the current value does not re-capture startValue or restart the time
\* origin: both stay as captured when the target last changed.
C22_OriginCapturedOnTargetChange ==
    [][StepIsFrame => /\ startRef' = startRef
                      /\ startTimeRef' = startTimeRef
                      /\ startTimeRef = retargetAt]_vars

\* C23 (as claimed): with the target unchanged, a frame delivered once the
\* configured duration of frame time has passed since the target changed finds
\* progress >= 1: the value is then exactly the target and no further frame is
\* scheduled.
C23_SettlesWithinDuration ==
    [][(StepIsFrame /\ now >= retargetAt + Duration)
          => (current' = target * PosScale /\ ~frameScheduled')]_vars

\* C24 (as claimed): two activate presses at least DOUBLE_PRESS_WINDOW apart,
\* followed by silence, dispatch exactly two press actions, also when the second
\* key event is handled before the expired double-press timer of the first press
\* has run.
C24_NoPressLostAtBoundary ==
    (/\ Cardinality(Activates) = 2
     /\ \A i \in Activates :
           NextActivate(i) <= Len(history)
           => history[NextActivate(i)].at - history[i].at >= DOUBLE_PRESS_WINDOW
     /\ \A u \in DOMAIN history : ~IsUnmount(u)
     /\ \A i \in Activates : now > history[i].at + DOUBLE_PRESS_WINDOW)
    => /\ CountOf("press") = 2
       /\ CountOf("doublePress") = 0

\* C25 (as claimed): with a controlled selectedIndex c in [0, N), a resolved press
\* invokes onSelect(items[c], c), whatever left/right key events and external
\* changes of c came before, and not with the hook's internal index.
C25_ControlledSelectionSelected ==
    [][(Len(selected') > Len(selected) /\ 0 <= target /\ target < itemCount)
          => selected'[Len(selected')].idx = target]_vars

\* C26: in the navigation controller only a left or right action changes the
\* index: up, down, tab, press, doublePress, longPress and escape, and every step
\* that dispatches nothing, leave it unchanged.
C26_OnlyLeftRightMove ==
    [][/\ index' # index => (StepDispatches("left") \/ StepDispatches("right"))
       /\ \A a \in {"up", "down", "tab", "press", "doublePress", "longPress", "escape"} :
             StepDispatches(a) => index' = index]_vars

\* C26 witness: an up was dispatched and a press was resolved over more than one
\* item, and the index is still 0
C26_Witness ==
    /\ \E i \in DOMAIN history : IsDispatch(i, "up")
    /\ IsDispatch(Len(history), "press")
    /\ index = 0
    /\ itemCount > 1

\* the slots of the window at depth 0
CentreSlots == {k \in DOMAIN visibleSlots : visibleSlots[k].depth = 0}

\* C27: for every N > 0 and displayed position p in [0, N) the snapshot's
\* selectedItem, items[round(p) % N], is the item of the single depth-0 slot of the
\* visible window, also for p >= N - 0.5, where round(p) = N wraps to index 0.
C27_SnapshotConsistent ==
    (/\ visibleSlots # <<>>
     /\ 0 <= current /\ current < total * PosScale)
    => /\ Cardinality(CentreSlots) = 1
       /\ \A k \in CentreSlots : visibleSlots[k].index = SelectedItemIndex(current, total)
       /\ SelectedItemIndex(current, total) \in 0..(total - 1)

\* C27 witness: a position in [N - 0.5, N) over 3 items: the centre slot and
\* selectedItem are both item 0
C27_Witness ==
    /\ total = 3
    /\ 2 * current >= (2 * total - 1) * PosScale /\ current < total * PosScale
    /\ visibleSlots # <<>>
    /\ \A k \in CentreSlots : visibleSlots[k].index = 0
    /\ SelectedItemIndex(current, total) = 0

\* move(+1) applied n times
RECURSIVE MoveRightTimes(_, _)
MoveRightTimes(i, n) ==
    IF n = 0 THEN i ELSE MoveRightTimes(move(i, 1, itemCount, TRUE), n - 1)

\* C28: with wrap enabled moves compose modulo N: for all integers a and b and
\* every index in [0, N), move(a) followed by move(b) yields the index of a single
\* move(a + b); move(+1) then move(-1) restores the index, and N consecutive
\* move(+1) return to the starting index.
C28_MovesCompose ==
    wrap =>
        /\ \A b \in (-MaxDelta)..MaxDelta :
              move(index, b, itemCount, wrap) = move(moveFrom, moveDelta + b, itemCount, wrap)
        /\ \A i \in 0..(itemCount - 1) :
              /\ \A a, b \in (-MaxDelta)..MaxDelta :
                    move(move(i, a, itemCount, wrap), b, itemCount, wrap)
                        = move(i, a + b, itemCount, wrap)
              /\ move(move(i, 1, itemCount, wrap), -1, itemCount, wrap) = i
              /\ MoveRightTimes(i, itemCount) = i

\* C28 witness: a second move, by more than a full turn backwards, was made from
\* a non-zero index with wrap enabled
C28_Witness ==
    /\ wrap
    /\ itemCount = MaxCount
    /\ moveFrom = 2
    /\ moveDelta = -MaxDelta
    /\ index = (moveFrom + moveDelta) % itemCount

\* C29 (as claimed): in the display emulator, after any sequence of ArrowLeft,
\* ArrowRight, Enter and Escape key events, selectedIndex is a valid index into the
\* list the current view renders: 7 main-menu items, 6 settings entries, 5 tracks.
C29_EmulatorIndexValid ==
    view \in {"main", "settings", "media"}
        => (0 <= selectedIndex /\ selectedIndex < ViewListLength)

\* C30: in every reachable state of the dispatcher at most one long-press timer
\* and at most one double-press timer are armed, each armed timer is the one its
\* handle references, and so clearTimers cancels every armed timer.
C30_TimerBookkeeping ==
    /\ Cardinality({t \in timers : t.kind = "long"}) <= 1
    /\ Cardinality({t \in timers : t.kind = "double"}) <= 1
    /\ \A t \in timers : /\ t.kind = "long" => t.id = longPressTimerRef
                         /\ t.kind = "double" => t.id = doublePressTimerRef
    /\ clearTimers(timers, longPressTimerRef, doublePressTimerRef) = {}

\* C30 witness: both timers armed by a press that cancelled the timers of an
\* earlier, still pending press
C30_Witness ==
    /\ Cardinality(timers) = 2
    /\ Len(history) = 2
    /\ IsActivate(1) /\ IsActivate(2)
    /\ nextTimer = 5
    /\ \A t \in timers : t.id \in {longPressTimerRef, doublePressTimerRef}

====
